---- MODULE Spec2Model ----
(***************************************************************************)
(* Model of the topn-db service layer: the record store (cities,           *)
(* districts, item_records, monitoring_tasks and the task/district         *)
(* association table), the location resolver of ItemService.create_item    *)
(* and the dispatch matcher ItemService.get_items_to_send_for_task.        *)
(*                                                                         *)
(* Strings are sequences of one-character tokens.  The non-ASCII letters   *)
(* of the source are written as ASCII tokens: "o'" is o-acute, "O'" is     *)
(* O-acute, "s'" is s-acute, "z." is z-dot-above and "U+4E00" is the CJK   *)
(* ideograph of that code point.                                           *)
(* Timestamps are integers; one unit is one minute.                        *)
(* An Optional value is None (the empty tuple) or Some(x) (a 1-tuple).     *)
(***************************************************************************)
EXTENDS Integers, Sequences, FiniteSets, TLC

VARIABLES
    cities,                    \* table cities: set of City rows
    districts,                 \* table districts: set of District rows
    items,                     \* table item_records: set of ItemRecord rows
    tasks,                     \* table monitoring_tasks: set of MonitoringTask rows
    monitoring_task_districts, \* association table (task id, district id)
    seq,                       \* the autoincrement counter of each table
    now,                       \* the clock read by now_warsaw()
    settings,                  \* core.config.settings (fixed for the process)
    res,                       \* outcome of the service call made last
    uow,                       \* the open units of work (Session objects)
    loop                       \* the delivery loop that consumes the matcher

vars == <<cities, districts, items, tasks, monitoring_task_districts,
          seq, now, settings, res, uow, loop>>

store == <<cities, districts, items, tasks, monitoring_task_districts, seq>>

----------------------------------------------------------------------------
(* Bounds of the model. *)

MaxTime == 2       \* the clock runs over 0..MaxTime
MaxItems == 2      \* item rows ever created
MaxGeoItems == 3   \* item rows ever created under SpecGeo
MaxMinutes == 2    \* the two configured windows range over 1..MaxMinutes
MaxCities == 2     \* city rows ever created by the taxonomy specifications
MaxDistricts == 2  \* district rows ever created by the taxonomy specifications
MaxTasks == 3      \* task rows ever created under SpecTasks
MaxLen == 5        \* the longest string given to the string functions alone

----------------------------------------------------------------------------
(* Optional values. *)

None == <<>>
Some(x) == <<x>>
Val(o) == o[1]

----------------------------------------------------------------------------
(* Units of work: the sessions of two requests served at once.  A session  *)
(* holds the place its request has reached (pc), what the request has read *)
(* so far and the rows it has flushed and not yet committed.               *)

Sessions == {"s1", "s2"}
Idle == [pc |-> "idle", location |-> None, source_url |-> "",
         city |-> None, district |-> None, cities |-> {}, districts |-> {}]

----------------------------------------------------------------------------
(* The delivery loop, the consumer of the dispatch matcher: for its task   *)
(* it asks for the items to send, delivers them, and then has the task's   *)
(* last_got_item stamped.  It holds the place it has reached (pc), the ids *)
(* of the items it has delivered and the number of item rows there were    *)
(* when it asked first.                                                    *)

Waiting == [pc |-> "query", delivered |-> {}, first |-> None]

----------------------------------------------------------------------------
(* Strings. *)

\* unidecode: every character is replaced by its ASCII transliteration, which
\* for a character outside the Latin scripts is several characters long
\* ("U+4E00" transliterates to "Yi ", trailing blank included).
RECURSIVE unidecode(_)
unidecode(s) ==
    IF s = <<>> THEN <<>>
    ELSE LET c == Head(s)
             t == CASE c = "o'" -> <<"o">>
                    [] c = "O'" -> <<"O">>
                    [] c = "s'" -> <<"s">>
                    [] c = "z." -> <<"z">>
                    [] c = "U+4E00" -> <<"Y", "i", " ">>
                    [] OTHER -> <<c>>
         IN t \o unidecode(Tail(s))

lower_char(c) ==
    CASE c = "W" -> "w"
      [] c = "K" -> "k"
      [] c = "O" -> "o"
      [] c = "U" -> "u"
      [] c = "D" -> "d"
      [] c = "Y" -> "y"
      [] c = "O'" -> "o'"
      [] OTHER -> c

lower(s) == [k \in 1..Len(s) |-> lower_char(s[k])]

isspace(c) == c = " "

RECURSIVE lstrip(_)
lstrip(s) ==
    IF s # <<>> /\ isspace(Head(s)) THEN lstrip(Tail(s)) ELSE s

RECURSIVE rstrip(_)
rstrip(s) ==
    IF s # <<>> /\ isspace(s[Len(s)]) THEN rstrip(SubSeq(s, 1, Len(s) - 1)) ELSE s

strip(s) == rstrip(lstrip(s))

StartsWith(s, p) == Len(s) >= Len(p) /\ SubSeq(s, 1, Len(p)) = p

\* str.replace(old, new) for a non-empty old: leftmost, non-overlapping.
RECURSIVE replace(_, _, _)
replace(s, old, new) ==
    IF s = <<>> THEN <<>>
    ELSE IF StartsWith(s, old)
         THEN new \o replace(SubSeq(s, Len(old) + 1, Len(s)), old, new)
         ELSE <<Head(s)>> \o replace(Tail(s), old, new)

\* str.split(sep) for a one-character sep: always at least one segment.
RECURSIVE split(_, _)
split(s, sep) ==
    IF \A k \in 1..Len(s) : s[k] # sep THEN <<s>>
    ELSE LET k == CHOOSE j \in 1..Len(s) :
                      s[j] = sep /\ \A h \in 1..(j - 1) : s[h] # sep
         IN <<SubSeq(s, 1, k - 1)>> \o split(SubSeq(s, k + 1, Len(s)), sep)

Unknown == <<"U", "n", "k", "n", "o", "w", "n">>
unknown == <<"u", "n", "k", "n", "o", "w", "n">>
Odswiezono == <<" ", "-", " ", "O", "d", "s'", "w", "i", "e", "z.", "o", "n", "o">>
odswiezono == <<" ", "-", " ", "o", "d", "s'", "w", "i", "e", "z.", "o", "n", "o">>
\* A third spelling of the marker, the first two letters in upper case.
ODswiezono == <<" ", "-", " ", "O", "D", "s'", "w", "i", "e", "z.", "o", "n", "o">>

\* Mutant of _normalize_name: the transliteration is applied last.
_normalize_name_unidecode_last(name) == unidecode(strip(lower(name)))

_normalize_name(name) == strip(lower(unidecode(name)))

\* Mutant of _parse_location: the district is the last segment.
_parse_location_last_segment(location) ==
    IF location = None \/ Val(location) = <<>> \/ strip(Val(location)) = <<>>
    THEN <<Unknown, Unknown>>
    ELSE LET raw == split(Val(location), ",")
             parts == [k \in 1..Len(raw) |-> strip(raw[k])]
         IN IF Len(parts) >= 2 THEN <<parts[1], parts[Len(parts)]>>
            ELSE IF Len(parts) = 1 THEN <<parts[1], Unknown>>
            ELSE <<Unknown, Unknown>>

\* location is Optional: None, or Some(string).  Returns <<city_name, district_name>>.
_parse_location(location) ==
    IF location = None \/ Val(location) = <<>> \/ strip(Val(location)) = <<>>
    THEN <<Unknown, Unknown>>
    ELSE LET raw == split(Val(location), ",")
             parts == [k \in 1..Len(raw) |-> strip(raw[k])]
         IN IF Len(parts) >= 2 THEN <<parts[1], parts[2]>>
            ELSE IF Len(parts) = 1 THEN <<parts[1], Unknown>>
            ELSE <<Unknown, Unknown>>

\* The cleaning of item_data.location at the head of create_item.
clean_location(location) ==
    IF location # None /\ Val(location) # <<>>
    THEN Some(strip(replace(replace(Val(location), Odswiezono, <<>>), odswiezono, <<>>)))
    ELSE location

----------------------------------------------------------------------------
(* Queries. *)

\* Query.first(): None when nothing matches, otherwise one of the matching
\* rows (no ORDER BY: which one is the store's choice).
first(rows) == IF rows = {} THEN {None} ELSE {Some(r) : r \in rows}

allowed_districts(task) ==
    {d \in districts :
        [monitoring_task_id |-> task.id, district_id |-> d.id]
            \in monitoring_task_districts}

----------------------------------------------------------------------------
(* Location resolver: get-or-create of the taxonomy rows. *)

\* Mutant of _get_or_create_city: the lookup compares name_raw.
_get_or_create_city_by_raw(cs, n, city_name) ==
    LET city_normalized == _normalize_name(city_name)
        found == first({c \in cs : c.name_raw = city_name})
    IN { IF city # None
         THEN [city |-> Val(city), cities |-> cs, created |-> FALSE]
         ELSE LET new == [id |-> n, name_raw |-> city_name,
                          name_normalized |-> city_normalized]
              IN [city |-> new, cities |-> cs \cup {new}, created |-> TRUE]
         : city \in found }

\* The outcomes of _get_or_create_city on the table cs with next id n:
\* the row returned, the table after the flush and whether a row was added.
_get_or_create_city(cs, n, city_name) ==
    LET city_normalized == _normalize_name(city_name)
        found == first({c \in cs : c.name_normalized = city_normalized})
    IN { IF city # None
         THEN [city |-> Val(city), cities |-> cs, created |-> FALSE]
         ELSE LET new == [id |-> n, name_raw |-> city_name,
                          name_normalized |-> city_normalized]
              IN [city |-> new, cities |-> cs \cup {new}, created |-> TRUE]
         : city \in found }

\* Mutant of _get_or_create_district: the new row is never added.
_get_or_create_district_not_added(ds, n, city, district_name) ==
    LET district_normalized == _normalize_name(district_name)
        found == first({d \in ds : /\ d.city_id = city.id
                                   /\ d.name_normalized = district_normalized})
    IN { IF district # None
         THEN [district |-> Val(district), districts |-> ds, created |-> FALSE]
         ELSE LET new == [id |-> n, city_id |-> city.id,
                          name_raw |-> district_name,
                          name_normalized |-> district_normalized]
              IN [district |-> new, districts |-> ds, created |-> TRUE]
         : district \in found }

_get_or_create_district(ds, n, city, district_name) ==
    LET district_normalized == _normalize_name(district_name)
        found == first({d \in ds : /\ d.city_id = city.id
                                   /\ d.name_normalized = district_normalized})
    IN { IF district # None
         THEN [district |-> Val(district), districts |-> ds, created |-> FALSE]
         ELSE LET new == [id |-> n, city_id |-> city.id,
                          name_raw |-> district_name,
                          name_normalized |-> district_normalized]
              IN [district |-> new, districts |-> ds \cup {new}, created |-> TRUE]
         : district \in found }

\* ItemService.create_item.  The columns the matcher and the resolver never
\* read (item_url, title, price, source, ...) are left out of the row.
create_item(location, source_url) ==
    /\ LET clean == clean_location(location)
           names == _parse_location(clean)
       IN \E gc \in _get_or_create_city(cities, seq.cities, names[1]) :
          \E gd \in _get_or_create_district(districts, seq.districts,
                                            gc.city, names[2]) :
             LET new_item == [id |-> seq.items,
                              source_url |-> source_url,
                              location |-> clean,
                              first_seen |-> now,
                              city_id |-> Some(gc.city.id),
                              district_id |-> Some(gd.district.id)]
             IN /\ cities' = gc.cities
                /\ districts' = gd.districts
                /\ items' = items \cup {new_item}
                /\ seq' = [seq EXCEPT
                             !.cities = IF gc.created THEN @ + 1 ELSE @,
                             !.districts = IF gd.created THEN @ + 1 ELSE @,
                             !.items = @ + 1]
                /\ res' = [op |-> "create_item", error |-> "none",
                           id |-> new_item.id]
    /\ UNCHANGED <<tasks, monitoring_task_districts, now, settings, loop, uow>>

----------------------------------------------------------------------------
(* Constraints the store checks when rows are written. *)

\* Mutant of City_name_normalized_unique: the column is not declared unique.
City_name_normalized_not_unique(cs, row) == TRUE

\* cities.name_normalized is unique: row may be written next to the rows cs.
City_name_normalized_unique(cs, row) ==
    \A c \in cs : c.id # row.id => c.name_normalized # row.name_normalized

\* Mutant of uix_city_district: the constraint is not declared.
uix_city_district_absent(ds, row) == TRUE

\* UniqueConstraint("city_id", "name_normalized").
uix_city_district(ds, row) ==
    \A d \in ds :
        d.id # row.id => ~ /\ d.city_id = row.city_id
                           /\ d.name_normalized = row.name_normalized

\* Mutant of uix_chat_id_name: the constraint is not declared.
uix_chat_id_name_absent(ts, row) == TRUE

\* UniqueConstraint("chat_id", "name").
uix_chat_id_name(ts, row) ==
    \A t \in ts :
        t.id # row.id => ~(t.chat_id = row.chat_id /\ t.name = row.name)

\* Whether the store checks the declared foreign keys is a property of the
\* engine behind DATABASE_URL: both kinds of store are considered.
foreign_keys == {TRUE, FALSE}

----------------------------------------------------------------------------
(* create_item and create_city one database round trip at a time, each     *)
(* call in a session of its own.  A query sees the committed rows and the  *)
(* rows its own session has flushed; an INSERT that collides with a row    *)
(* another session has flushed waits for that session to end.              *)

\* The request fails: the session is closed and its work rolled back.
raise(s, op, error) ==
    /\ uow' = [uow EXCEPT ![s] = Idle]
    /\ res' = [op |-> op, error |-> error]
    /\ UNCHANGED <<store, now, settings, loop>>

\* create_item up to the parsing of the cleaned location.
create_item_parse(s, location, source_url) ==
    /\ uow[s].pc = "idle"
    /\ uow' = [uow EXCEPT ![s] = [Idle EXCEPT
                                    !.pc = "get_city",
                                    !.location = clean_location(location),
                                    !.source_url = source_url]]
    /\ UNCHANGED <<store, now, settings, loop, res>>

\* _get_or_create_city: the query.
_get_or_create_city_query(s) ==
    /\ uow[s].pc = "get_city"
    /\ LET city_normalized ==
               _normalize_name(_parse_location(uow[s].location)[1])
       IN \E city \in first({c \in cities \cup uow[s].cities :
                                c.name_normalized = city_normalized}) :
             uow' = [uow EXCEPT ![s] =
                        IF city # None
                        THEN [@ EXCEPT !.pc = "get_district", !.city = city]
                        ELSE [@ EXCEPT !.pc = "add_city"]]
    /\ UNCHANGED <<store, now, settings, loop, res>>

\* _get_or_create_city: db.add(city) and db.flush().
_get_or_create_city_flush(s) ==
    /\ uow[s].pc = "add_city"
    /\ LET city_name == _parse_location(uow[s].location)[1]
           city == [id |-> seq.cities, name_raw |-> city_name,
                    name_normalized |-> _normalize_name(city_name)]
       IN /\ \A t \in Sessions \ {s} :
                \A c \in uow[t].cities :
                    c.name_normalized # city.name_normalized
          /\ IF City_name_normalized_unique(cities, city)
             THEN /\ uow' = [uow EXCEPT ![s] =
                                [@ EXCEPT !.pc = "get_district",
                                          !.city = Some(city),
                                          !.cities = @ \cup {city}]]
                  /\ seq' = [seq EXCEPT !.cities = @ + 1]
                  /\ UNCHANGED <<cities, districts, items, tasks,
                                 monitoring_task_districts, now, settings, loop,
                                 res>>
             ELSE raise(s, "create_item", "IntegrityError")

\* _get_or_create_district: the query.
_get_or_create_district_query(s) ==
    /\ uow[s].pc = "get_district"
    /\ LET city == Val(uow[s].city)
           district_normalized ==
               _normalize_name(_parse_location(uow[s].location)[2])
       IN \E district \in
                first({d \in districts \cup uow[s].districts :
                          /\ d.city_id = city.id
                          /\ d.name_normalized = district_normalized}) :
             uow' = [uow EXCEPT ![s] =
                        IF district # None
                        THEN [@ EXCEPT !.pc = "add_item",
                                       !.district = district]
                        ELSE [@ EXCEPT !.pc = "add_district"]]
    /\ UNCHANGED <<store, now, settings, loop, res>>

\* _get_or_create_district: db.add(district) and db.flush().
_get_or_create_district_flush(s) ==
    /\ uow[s].pc = "add_district"
    /\ LET city == Val(uow[s].city)
           district_name == _parse_location(uow[s].location)[2]
           district == [id |-> seq.districts, city_id |-> city.id,
                        name_raw |-> district_name,
                        name_normalized |-> _normalize_name(district_name)]
       IN /\ \A t \in Sessions \ {s} :
                \A d \in uow[t].districts :
                    ~ /\ d.city_id = district.city_id
                      /\ d.name_normalized = district.name_normalized
          /\ \E enforced \in foreign_keys :
                IF /\ uix_city_district(districts, district)
                   /\ ~ /\ enforced
                         /\ \A c \in cities \cup uow[s].cities :
                               c.id # city.id
                THEN /\ uow' = [uow EXCEPT ![s] =
                                   [@ EXCEPT !.pc = "add_item",
                                             !.district = Some(district),
                                             !.districts = @ \cup {district}]]
                     /\ seq' = [seq EXCEPT !.districts = @ + 1]
                     /\ UNCHANGED <<cities, districts, items, tasks,
                                    monitoring_task_districts, now,
                                    settings, loop, res>>
                ELSE raise(s, "create_item", "IntegrityError")

\* create_item from ItemRecord(...) to db.commit().
create_item_commit(s) ==
    /\ uow[s].pc = "add_item"
    /\ LET new_item == [id |-> seq.items,
                        source_url |-> uow[s].source_url,
                        location |-> uow[s].location,
                        first_seen |-> now,
                        city_id |-> Some(Val(uow[s].city).id),
                        district_id |-> Some(Val(uow[s].district).id)]
       IN \E enforced \in foreign_keys :
             IF /\ enforced
                /\ \/ \A c \in cities \cup uow[s].cities :
                         c.id # Val(uow[s].city).id
                   \/ \A d \in districts \cup uow[s].districts :
                         d.id # Val(uow[s].district).id
             THEN raise(s, "create_item", "IntegrityError")
             ELSE /\ cities' = cities \cup uow[s].cities
                  /\ districts' = districts \cup uow[s].districts
                  /\ items' = items \cup {new_item}
                  /\ seq' = [seq EXCEPT !.items = @ + 1]
                  /\ uow' = [uow EXCEPT ![s] = Idle]
                  /\ res' = [op |-> "create_item", error |-> "none",
                             id |-> new_item.id]
                  /\ UNCHANGED <<tasks, monitoring_task_districts, now,
                                 settings, loop>>

\* create_city up to db.add(new_city).
create_city_query(s, name_raw, name_normalized) ==
    /\ uow[s].pc = "idle"
    /\ \E existing_city \in
             first({c \in cities : c.name_normalized = name_normalized}) :
          IF existing_city # None
          THEN raise(s, "create_city", "ValueError")
          ELSE /\ uow' = [uow EXCEPT ![s] =
                             [Idle EXCEPT
                                !.pc = "create_city_commit",
                                !.city = Some([id |-> 0,
                                               name_raw |-> name_raw,
                                               name_normalized |->
                                                   name_normalized])]]
               /\ UNCHANGED <<store, now, settings, loop, res>>

\* create_city: db.commit().
create_city_commit(s) ==
    /\ uow[s].pc = "create_city_commit"
    /\ LET new_city == [Val(uow[s].city) EXCEPT !.id = seq.cities]
       IN /\ \A t \in Sessions \ {s} :
                \A c \in uow[t].cities :
                    c.name_normalized # new_city.name_normalized
          /\ IF City_name_normalized_unique(cities, new_city)
             THEN /\ cities' = cities \cup {new_city}
                  /\ seq' = [seq EXCEPT !.cities = @ + 1]
                  /\ uow' = [uow EXCEPT ![s] = Idle]
                  /\ res' = [op |-> "create_city", error |-> "none",
                             id |-> new_city.id]
                  /\ UNCHANGED <<districts, items, tasks,
                                 monitoring_task_districts, now,
                                 settings, loop>>
             ELSE raise(s, "create_city", "IntegrityError")

----------------------------------------------------------------------------
(* Administration of the taxonomy. *)

\* CityService.create_city.
create_city(name_raw, name_normalized) ==
    /\ \E existing_city \in
             first({c \in cities : c.name_normalized = name_normalized}) :
          IF existing_city # None
          THEN /\ res' = [op |-> "create_city", error |-> "ValueError"]
               /\ UNCHANGED store
          ELSE LET new_city == [id |-> seq.cities, name_raw |-> name_raw,
                                name_normalized |-> name_normalized]
               IN /\ cities' = cities \cup {new_city}
                  /\ seq' = [seq EXCEPT !.cities = @ + 1]
                  /\ res' = [op |-> "create_city", error |-> "none",
                             id |-> new_city.id]
                  /\ UNCHANGED <<districts, items, tasks,
                                 monitoring_task_districts>>
    /\ UNCHANGED <<now, settings, loop, uow>>

\* CityService.update_city.  name_raw and name_normalized are Optional.
update_city(city_id, name_raw, name_normalized) ==
    /\ \E city \in first({c \in cities : c.id = city_id}) :
          IF city = None
          THEN /\ res' = [op |-> "update_city", error |-> "none",
                          value |-> None]
               /\ UNCHANGED store
          ELSE \E existing_city \in
                    (IF name_normalized # None
                     THEN first({c \in cities :
                                    c.name_normalized = Val(name_normalized)})
                     ELSE {None}) :
                 IF existing_city # None /\ Val(existing_city).id # city_id
                 THEN /\ res' = [op |-> "update_city", error |-> "ValueError"]
                      /\ UNCHANGED store
                 ELSE LET updated ==
                              [Val(city) EXCEPT
                                 !.name_raw = IF name_raw # None
                                              THEN Val(name_raw) ELSE @,
                                 !.name_normalized =
                                     IF name_normalized # None
                                     THEN Val(name_normalized) ELSE @]
                      IN IF City_name_normalized_unique(cities, updated)
                         THEN /\ cities' = (cities \ {Val(city)}) \cup {updated}
                              /\ res' = [op |-> "update_city",
                                         error |-> "none",
                                         value |-> Some(city_id)]
                              /\ UNCHANGED <<districts, items, tasks,
                                             monitoring_task_districts, seq>>
                         ELSE /\ res' = [op |-> "update_city",
                                         error |-> "IntegrityError"]
                              /\ UNCHANGED store
    /\ UNCHANGED <<now, settings, loop, uow>>

\* CityService.delete_city_by_id.  No relationship of City cascades the
\* delete, so the flush first writes NULL into the city_id of every row that
\* names the city: item_records and monitoring_tasks take it,
\* districts.city_id is NOT NULL and the flush fails.
delete_city_by_id(city_id) ==
    /\ \E city \in first({c \in cities : c.id = city_id}) :
          IF city = None
          THEN /\ res' = [op |-> "delete_city_by_id", error |-> "none",
                          city_id |-> city_id, value |-> FALSE]
               /\ UNCHANGED store
          ELSE IF \E d \in districts : d.city_id = city_id
          THEN /\ res' = [op |-> "delete_city_by_id",
                          error |-> "IntegrityError",
                          city_id |-> city_id, value |-> FALSE]
               /\ UNCHANGED store
          ELSE /\ cities' = cities \ {Val(city)}
               /\ items' = {IF i.city_id = Some(city_id)
                            THEN [i EXCEPT !.city_id = None] ELSE i
                            : i \in items}
               /\ tasks' = {IF t.city_id = Some(city_id)
                            THEN [t EXCEPT !.city_id = None] ELSE t
                            : t \in tasks}
               /\ res' = [op |-> "delete_city_by_id", error |-> "none",
                          city_id |-> city_id, value |-> TRUE]
               /\ UNCHANGED <<districts, monitoring_task_districts, seq>>
    /\ UNCHANGED <<now, settings, loop, uow>>

\* DistrictService.create_district.
create_district(city_id, name_raw, name_normalized) ==
    /\ \E existing_district \in
             first({d \in districts : /\ d.city_id = city_id
                                       /\ d.name_normalized = name_normalized}),
          enforced \in foreign_keys :
          IF existing_district # None
          THEN /\ res' = [op |-> "create_district", error |-> "ValueError"]
               /\ UNCHANGED store
          ELSE IF enforced /\ \A c \in cities : c.id # city_id
          THEN /\ res' = [op |-> "create_district", error |-> "IntegrityError"]
               /\ UNCHANGED store
          ELSE LET new_district == [id |-> seq.districts, city_id |-> city_id,
                                    name_raw |-> name_raw,
                                    name_normalized |-> name_normalized]
               IN /\ districts' = districts \cup {new_district}
                  /\ seq' = [seq EXCEPT !.districts = @ + 1]
                  /\ res' = [op |-> "create_district", error |-> "none",
                             id |-> new_district.id]
                  /\ UNCHANGED <<cities, items, tasks,
                                 monitoring_task_districts>>
    /\ UNCHANGED <<now, settings, loop, uow>>

\* DistrictService.update_district.  city_id, name_raw and name_normalized
\* are Optional.
update_district(district_id, city_id, name_raw, name_normalized) ==
    /\ \E district \in first({d \in districts : d.id = district_id}),
          enforced \in foreign_keys :
          IF district = None
          THEN /\ res' = [op |-> "update_district", error |-> "none",
                          value |-> None]
               /\ UNCHANGED store
          ELSE LET target == IF city_id # None THEN Val(city_id)
                             ELSE Val(district).city_id
               IN \E existing_district \in
                      (IF name_normalized # None
                       THEN first({d \in districts :
                                      /\ d.city_id = target
                                      /\ d.name_normalized = Val(name_normalized)})
                       ELSE {None}) :
                    IF /\ existing_district # None
                       /\ Val(existing_district).id # district_id
                    THEN /\ res' = [op |-> "update_district",
                                    error |-> "ValueError"]
                         /\ UNCHANGED store
                    ELSE LET updated ==
                                 [Val(district) EXCEPT
                                    !.city_id = target,
                                    !.name_raw = IF name_raw # None
                                                 THEN Val(name_raw) ELSE @,
                                    !.name_normalized =
                                        IF name_normalized # None
                                        THEN Val(name_normalized) ELSE @]
                         IN IF /\ uix_city_district(districts, updated)
                               /\ ~ /\ enforced
                                     /\ \A c \in cities : c.id # target
                            THEN /\ districts' = (districts \ {Val(district)})
                                                     \cup {updated}
                                 /\ res' = [op |-> "update_district",
                                            error |-> "none",
                                            value |-> Some(district_id)]
                                 /\ UNCHANGED <<cities, items, tasks,
                                                monitoring_task_districts,
                                                seq>>
                            ELSE /\ res' = [op |-> "update_district",
                                            error |-> "IntegrityError"]
                                 /\ UNCHANGED store
    /\ UNCHANGED <<now, settings, loop, uow>>

\* DistrictService.delete_district_by_id.  The flush writes NULL into the
\* district_id of the items of the district and deletes its rows of the
\* association table.
delete_district_by_id(district_id) ==
    /\ \E district \in first({d \in districts : d.id = district_id}) :
          IF district = None
          THEN /\ res' = [op |-> "delete_district_by_id", error |-> "none",
                          value |-> FALSE]
               /\ UNCHANGED store
          ELSE /\ districts' = districts \ {Val(district)}
               /\ items' = {IF i.district_id = Some(district_id)
                            THEN [i EXCEPT !.district_id = None] ELSE i
                            : i \in items}
               /\ monitoring_task_districts' =
                     {m \in monitoring_task_districts :
                         m.district_id # district_id}
               /\ res' = [op |-> "delete_district_by_id", error |-> "none",
                          value |-> TRUE]
               /\ UNCHANGED <<cities, tasks, seq>>
    /\ UNCHANGED <<now, settings, loop, uow>>

----------------------------------------------------------------------------
(* Monitoring tasks. *)

\* Mutant of has_url_for_chat: the lookup is not made.
has_url_for_chat_unchecked(chat_id, url) == FALSE

has_url_for_chat(chat_id, url) ==
    \E t \in tasks : t.chat_id = chat_id /\ t.url = url

\* TaskService.create_task.  city_id is Optional; allowed_district_ids is a
\* set of ids (the order of the request's list is never read).
create_task(chat_id, name, url, city_id, allowed_district_ids) ==
    /\ IF has_url_for_chat(chat_id, url)
       THEN /\ res' = [op |-> "create_task", error |-> "ValueError",
                       chat_id |-> chat_id, name |-> name, url |-> url]
            /\ UNCHANGED store
       ELSE IF \E t \in tasks : t.chat_id = chat_id /\ t.name = name
       THEN \* uix_chat_id_name fails the flush; nothing is committed
            /\ res' = [op |-> "create_task", error |-> "IntegrityError",
                       chat_id |-> chat_id, name |-> name, url |-> url]
            /\ UNCHANGED store
       ELSE LET new_task == [id |-> seq.tasks, chat_id |-> chat_id,
                             name |-> name, url |-> url,
                             last_updated |-> now, last_got_item |-> None,
                             graphql_endpoint |-> None,
                             graphql_payload |-> None,
                             graphql_headers |-> None,
                             graphql_captured_at |-> None,
                             city_id |-> city_id]
                found == IF allowed_district_ids # {}
                         THEN {d \in districts : d.id \in allowed_district_ids}
                         ELSE {}
            IN /\ tasks' = tasks \cup {new_task}
               /\ monitoring_task_districts' = monitoring_task_districts \cup
                     {[monitoring_task_id |-> new_task.id, district_id |-> d.id]
                        : d \in found}
               /\ seq' = [seq EXCEPT !.tasks = @ + 1]
               /\ res' = [op |-> "create_task", error |-> "none",
                          chat_id |-> chat_id, name |-> name, url |-> url,
                          id |-> new_task.id]
               /\ UNCHANGED <<cities, districts, items>>
    /\ UNCHANGED <<now, settings, loop, uow>>

\* TaskService.update_task.  name, url, city_id and allowed_district_ids
\* are Optional; allowed_district_ids, when given, is a set of ids.
update_task(task_id, name, url, city_id, allowed_district_ids) ==
    /\ \E task \in first({t \in tasks : t.id = task_id}),
          enforced \in foreign_keys :
          IF task = None
          THEN /\ res' = [op |-> "update_task", error |-> "none",
                          task_id |-> task_id, name |-> name,
                          value |-> None]
               /\ UNCHANGED store
          ELSE LET updated ==
                       [Val(task) EXCEPT
                          !.name = IF name # None THEN Val(name) ELSE @,
                          !.url = IF url # None THEN Val(url) ELSE @,
                          !.city_id = IF city_id # None THEN city_id ELSE @,
                          !.last_updated = now]
                   others == {m \in monitoring_task_districts :
                                 m.monitoring_task_id # task_id}
                   found == IF allowed_district_ids # None
                            THEN {d \in districts :
                                     d.id \in Val(allowed_district_ids)}
                            ELSE {}
               IN IF /\ uix_chat_id_name(tasks, updated)
                     /\ ~ /\ enforced
                           /\ updated.city_id # None
                           /\ \A c \in cities : c.id # Val(updated.city_id)
                  THEN /\ tasks' = (tasks \ {Val(task)}) \cup {updated}
                       /\ monitoring_task_districts' =
                             IF allowed_district_ids # None
                             THEN others \cup
                                  {[monitoring_task_id |-> task_id,
                                    district_id |-> d.id] : d \in found}
                             ELSE monitoring_task_districts
                       /\ res' = [op |-> "update_task", error |-> "none",
                                  task_id |-> task_id, name |-> name,
                                  value |-> Some(task_id)]
                       /\ UNCHANGED <<cities, districts, items, seq>>
                  ELSE /\ res' = [op |-> "update_task",
                                  error |-> "IntegrityError",
                                  task_id |-> task_id, name |-> name,
                                  value |-> None]
                       /\ UNCHANGED store
    /\ UNCHANGED <<now, settings, loop, uow>>

\* The fields of the schema MonitoringTaskUpdate, and the object the
\* schema makes of a request body: a key of the body that the schema does
\* not declare is dropped (the schema sets no 'extra' policy).
MonitoringTaskUpdateFields == {"name", "url", "city_id", "allowed_district_ids"}
MonitoringTaskUpdate(body) ==
    [f \in MonitoringTaskUpdateFields |->
        IF f \in DOMAIN body THEN body[f] ELSE None]

\* PUT /tasks/{task_id}: the body is validated into a MonitoringTaskUpdate
\* and handed to TaskService.update_task.
update_task_request(task_id, body) ==
    LET task_data == MonitoringTaskUpdate(body)
    IN update_task(task_id, task_data.name, task_data.url, task_data.city_id,
                   task_data.allowed_district_ids)

\* The rows db.delete(task) and the commit remove for the tasks gone.
delete_tasks(gone, op) ==
    /\ tasks' = tasks \ gone
    /\ monitoring_task_districts' =
          {m \in monitoring_task_districts :
              \A t \in gone : m.monitoring_task_id # t.id}
    /\ res' = [op |-> op, error |-> "none", value |-> TRUE]
    /\ UNCHANGED <<cities, districts, items, seq>>

\* TaskService.delete_task_by_chat_id.  name is Optional.
delete_task_by_chat_id(chat_id, name) ==
    /\ IF name # None /\ Val(name) # ""
       THEN \E task \in first({t \in tasks : /\ t.chat_id = chat_id
                                               /\ t.name = Val(name)}) :
               IF task # None
               THEN delete_tasks({Val(task)}, "delete_task_by_chat_id")
               ELSE /\ res' = [op |-> "delete_task_by_chat_id",
                               error |-> "none", value |-> FALSE]
                    /\ UNCHANGED store
       ELSE IF {t \in tasks : t.chat_id = chat_id} # {}
            THEN delete_tasks({t \in tasks : t.chat_id = chat_id},
                              "delete_task_by_chat_id")
            ELSE /\ res' = [op |-> "delete_task_by_chat_id",
                            error |-> "none", value |-> FALSE]
                 /\ UNCHANGED store
    /\ UNCHANGED <<now, settings, loop, uow>>

\* TaskService.delete_task_by_id.
delete_task_by_id(task_id) ==
    /\ \E task \in first({t \in tasks : t.id = task_id}) :
          IF task # None
          THEN delete_tasks({Val(task)}, "delete_task_by_id")
          ELSE /\ res' = [op |-> "delete_task_by_id", error |-> "none",
                          value |-> FALSE]
               /\ UNCHANGED store
    /\ UNCHANGED <<now, settings, loop, uow>>

\* The tasks TaskService.get_pending_tasks returns: never dispatched, or
\* dispatched more than DEFAULT_SENDING_FREQUENCY_MINUTES ago.
get_pending_tasks ==
    LET time_threshold == now - settings.DEFAULT_SENDING_FREQUENCY_MINUTES
    IN {t \in tasks : \/ t.last_got_item = None
                      \/ Val(t.last_got_item) < time_threshold}

\* A call of TaskService.get_pending_tasks.
GetPendingTasks ==
    /\ res' = [op |-> "get_pending_tasks", error |-> "none",
               out |-> {t.id : t \in get_pending_tasks}]
    /\ UNCHANGED <<store, now, settings, loop, uow>>

\* TaskService.update_last_got_item: the task is whichever row of the chat
\* the store gives first.
update_last_got_item(chat_id) ==
    /\ \E task \in first({t \in tasks : t.chat_id = chat_id}) :
          IF task # None
          THEN /\ tasks' = (tasks \ {Val(task)}) \cup
                              {[Val(task) EXCEPT !.last_got_item = Some(now)]}
               /\ res' = [op |-> "update_last_got_item",
                          error |-> "none", value |-> TRUE]
          ELSE /\ tasks' = tasks
               /\ res' = [op |-> "update_last_got_item",
                          error |-> "none", value |-> FALSE]
    /\ UNCHANGED <<cities, districts, items, monitoring_task_districts,
                   seq, now, settings, loop, uow>>

\* Mutant of update_last_got_item_by_id: last_updated is stamped as well.
update_last_got_item_by_id_stamping(task_id) ==
    /\ \E task \in first({t \in tasks : t.id = task_id}) :
          IF task # None
          THEN /\ tasks' = (tasks \ {Val(task)}) \cup
                              {[Val(task) EXCEPT !.last_got_item = Some(now),
                                                 !.last_updated = now]}
               /\ res' = [op |-> "update_last_got_item_by_id",
                          error |-> "none", value |-> TRUE]
          ELSE /\ tasks' = tasks
               /\ res' = [op |-> "update_last_got_item_by_id",
                          error |-> "none", value |-> FALSE]
    /\ UNCHANGED <<cities, districts, items, monitoring_task_districts,
                   seq, now, settings, loop, uow>>

\* TaskService.update_last_got_item_by_id.
update_last_got_item_by_id(task_id) ==
    /\ \E task \in first({t \in tasks : t.id = task_id}) :
          IF task # None
          THEN /\ tasks' = (tasks \ {Val(task)}) \cup
                              {[Val(task) EXCEPT !.last_got_item = Some(now)]}
               /\ res' = [op |-> "update_last_got_item_by_id",
                          error |-> "none", value |-> TRUE]
          ELSE /\ tasks' = tasks
               /\ res' = [op |-> "update_last_got_item_by_id",
                          error |-> "none", value |-> FALSE]
    /\ UNCHANGED <<cities, districts, items, monitoring_task_districts,
                   seq, now, settings, loop, uow>>

----------------------------------------------------------------------------
(* Dispatch matcher. *)

\* Mutant of time_threshold: the smaller of the two windows.
time_threshold_smaller ==
    IF settings.DEFAULT_SENDING_FREQUENCY_MINUTES
          < settings.DEFAULT_LAST_MINUTES_GETTING
    THEN now - settings.DEFAULT_SENDING_FREQUENCY_MINUTES
    ELSE now - settings.DEFAULT_LAST_MINUTES_GETTING

\* The first-run threshold: now minus the larger of the two windows.
time_threshold ==
    IF settings.DEFAULT_SENDING_FREQUENCY_MINUTES
          > settings.DEFAULT_LAST_MINUTES_GETTING
    THEN now - settings.DEFAULT_SENDING_FREQUENCY_MINUTES
    ELSE now - settings.DEFAULT_LAST_MINUTES_GETTING

\* Mutant of time_filter: an item seen exactly at last_got_item passes.
time_filter_inclusive(task, item) ==
    IF task.last_got_item # None
    THEN item.first_seen >= Val(task.last_got_item)
    ELSE item.first_seen > time_threshold

time_filter(task, item) ==
    IF task.last_got_item # None
    THEN item.first_seen > Val(task.last_got_item)
    ELSE item.first_seen > time_threshold

\* Mutant of source_filter: the source is not compared.
source_filter_dropped(task, item) == TRUE

source_filter(task, item) == item.source_url = task.url

\* Mutant of city_filter: the 'unknown' city is not let through.
city_filter_no_unknown(task, unknown_city, item) ==
    IF task.city_id # None /\ Val(task.city_id) # 0
    THEN item.city_id = task.city_id
    ELSE TRUE

\* Mutant of city_filter: no filter at all when the 'unknown' city is absent.
city_filter_no_else(task, unknown_city, item) ==
    IF task.city_id # None /\ Val(task.city_id) # 0
    THEN IF unknown_city # None
         THEN \/ item.city_id = task.city_id
              \/ item.city_id = Some(Val(unknown_city).id)
         ELSE TRUE
    ELSE TRUE

\* unknown_city is the Optional row found by the lookup of 'unknown'.
\* A NULL city_id of an item compares equal to nothing.
city_filter(task, unknown_city, item) ==
    IF task.city_id # None /\ Val(task.city_id) # 0
    THEN LET unknown_city_id ==
                 IF unknown_city # None THEN Some(Val(unknown_city).id) ELSE None
         IN IF unknown_city_id # None /\ Val(unknown_city_id) # 0
            THEN \/ item.city_id = task.city_id
                 \/ item.city_id = unknown_city_id
            ELSE item.city_id = task.city_id
    ELSE TRUE

\* Mutant of district_filter: the 'unknown' district is not let through.
district_filter_no_unknown(task, unknown_district, item) ==
    IF allowed_districts(task) # {}
    THEN /\ item.district_id # None
         /\ Val(item.district_id) \in {d.id : d \in allowed_districts(task)}
    ELSE TRUE

district_filter(task, unknown_district, item) ==
    IF allowed_districts(task) # {}
    THEN LET allowed_district_ids == {d.id : d \in allowed_districts(task)}
             unknown_district_id ==
                 IF unknown_district # None
                 THEN Some(Val(unknown_district).id) ELSE None
         IN IF unknown_district_id # None /\ Val(unknown_district_id) # 0
            THEN \/ /\ item.district_id # None
                    /\ Val(item.district_id) \in allowed_district_ids
                 \/ item.district_id = unknown_district_id
            ELSE /\ item.district_id # None
                 /\ Val(item.district_id) \in allowed_district_ids
    ELSE TRUE

\* Mutant of order_by_first_seen_desc: oldest first.
order_by_first_seen_asc(rows) ==
    {s \in [1..Cardinality(rows) -> rows] :
        /\ \A j, k \in DOMAIN s : j # k => s[j] # s[k]
        /\ \A j, k \in DOMAIN s : j < k => s[j].first_seen <= s[k].first_seen}

\* ORDER BY first_seen DESC and .all(): every row, newest first; rows with
\* equal first_seen come in an order the store chooses.
order_by_first_seen_desc(rows) ==
    {s \in [1..Cardinality(rows) -> rows] :
        /\ \A j, k \in DOMAIN s : j # k => s[j] # s[k]
        /\ \A j, k \in DOMAIN s : j < k => s[j].first_seen >= s[k].first_seen}

\* The lists ItemService.get_items_to_send_for_task can return for task
\* (lists of item ids).
get_items_to_send_for_task(task) ==
    UNION { UNION {
        LET rows == {i \in items : /\ time_filter(task, i)
                                   /\ source_filter(task, i)
                                   /\ city_filter(task, unknown_city, i)
                                   /\ district_filter(task, unknown_district, i)}
        IN {[k \in DOMAIN s |-> s[k].id] : s \in order_by_first_seen_desc(rows)}
        : unknown_district \in
              first({d \in districts : d.name_normalized = unknown}) }
        : unknown_city \in first({c \in cities : c.name_normalized = unknown}) }

\* Mutant of get_items_to_send_for_task_by_id: the lookup does not filter
\* on the id.
get_items_to_send_for_task_by_id_any(task_id) ==
    UNION { IF task = None THEN {<<>>} ELSE get_items_to_send_for_task(Val(task))
            : task \in first(tasks) }

\* The lists ItemService.get_items_to_send_for_task_by_id can return.
get_items_to_send_for_task_by_id(task_id) ==
    UNION { IF task = None THEN {<<>>} ELSE get_items_to_send_for_task(Val(task))
            : task \in first({t \in tasks : t.id = task_id}) }

\* A call of get_items_to_send_for_task on a stored task (the way the
\* router calls it).
GetItemsToSendForTask(task) ==
    /\ task \in tasks
    /\ \E out \in get_items_to_send_for_task(task) :
          res' = [op |-> "get_items_to_send_for_task", error |-> "none",
                  task |-> task, out |-> out]
    /\ UNCHANGED <<store, now, settings, loop, uow>>

GetItemsToSendForTaskById(task_id) ==
    /\ \E out \in get_items_to_send_for_task_by_id(task_id) :
          res' = [op |-> "get_items_to_send_for_task_by_id", error |-> "none",
                  task_id |-> task_id, out |-> out]
    /\ UNCHANGED <<store, now, settings, loop, uow>>

----------------------------------------------------------------------------
(* The delivery loop on the task task_id:                                  *)
(* GET /tasks/{task_id}/items-to-send, the delivery of the items returned, *)
(* and then POST /tasks/{task_id}/update-last-got-item.                    *)

LoopDispatch(task_id) ==
    /\ loop.pc = "query"
    /\ \E task \in {t \in tasks : t.id = task_id} :
          \E out \in get_items_to_send_for_task(task) :
             /\ res' = [op |-> "get_items_to_send_for_task", error |-> "none",
                        task |-> task, out |-> out]
             /\ loop' = [pc |-> "update",
                         delivered |-> loop.delivered \cup
                                          {out[k] : k \in DOMAIN out},
                         first |-> IF loop.first = None THEN Some(seq.items)
                                   ELSE loop.first]
    /\ UNCHANGED <<store, now, settings, uow>>

LoopUpdate(task_id) ==
    /\ loop.pc = "update"
    /\ \E task \in first({t \in tasks : t.id = task_id}) :
          IF task # None
          THEN /\ tasks' = (tasks \ {Val(task)}) \cup
                              {[Val(task) EXCEPT !.last_got_item = Some(now)]}
               /\ res' = [op |-> "update_last_got_item_by_id",
                          error |-> "none", value |-> TRUE]
          ELSE /\ tasks' = tasks
               /\ res' = [op |-> "update_last_got_item_by_id",
                          error |-> "none", value |-> FALSE]
    /\ loop' = [loop EXCEPT !.pc = "query"]
    /\ UNCHANGED <<cities, districts, items, monitoring_task_districts,
                   seq, now, settings, uow>>

----------------------------------------------------------------------------
(* The clock. *)

Tick ==
    /\ now < MaxTime
    /\ now' = now + 1
    /\ res' = [op |-> "none", error |-> "none"]
    /\ UNCHANGED <<store, settings, loop, uow>>

----------------------------------------------------------------------------
(* The specification. *)

\* Inputs of the calls.  One chat and one task name: uix_chat_id_name then
\* admits one task row.
Urls == {"u1", "u2"}
ChatIds == {"c1"}
TaskNames == {"n1"}
TaskIds == {1, 2}
CityIds == {None} \cup {Some(c.id) : c \in cities}
DistrictIdSets == {S \in SUBSET (1..(seq.districts)) : Cardinality(S) <= 2}

\* The location is absent: every item resolves to the 'Unknown' pair.
Locations == {None}

\* The empty store.
EmptyStore ==
    /\ cities = {}
    /\ districts = {}
    /\ items = {}
    /\ tasks = {}
    /\ monitoring_task_districts = {}
    /\ seq = [cities |-> 1, districts |-> 1, items |-> 1, tasks |-> 1]

Init ==
    /\ EmptyStore
    /\ now = 0
    /\ settings \in [DEFAULT_SENDING_FREQUENCY_MINUTES : 1..MaxMinutes,
                     DEFAULT_LAST_MINUTES_GETTING : 1..MaxMinutes]
    /\ res = [op |-> "none", error |-> "none"]
    /\ uow = [s \in Sessions |-> Idle]
    /\ loop = Waiting

Next ==
    \/ /\ seq.items <= MaxItems
       /\ \E location \in Locations, source_url \in Urls :
             create_item(location, source_url)
    \/ /\ tasks = {}
       /\ \E chat_id \in ChatIds, name \in TaskNames, url \in Urls,
             city_id \in CityIds, allowed_district_ids \in DistrictIdSets :
             create_task(chat_id, name, url, city_id, allowed_district_ids)
    \/ \E task_id \in TaskIds : update_last_got_item_by_id(task_id)
    \/ \E task \in tasks : GetItemsToSendForTask(task)
    \/ \E task_id \in TaskIds : GetItemsToSendForTaskById(task_id)
    \/ Tick

Spec == Init /\ [][Next]_vars

----------------------------------------------------------------------------
(* The geography filters: a wider taxonomy, the clock standing still and   *)
(* the windows at their configured defaults.                               *)

\* None; "W"; "W, O'"; "K, O'"
GeoLocations ==
    { None,
      Some(<<"W">>),
      Some(<<"W", ",", " ", "O'">>),
      Some(<<"K", ",", " ", "O'">>) }
GeoUrls == {"u1", "u2"}

InitGeo ==
    /\ EmptyStore
    /\ now = 0
    /\ res = [op |-> "none", error |-> "none"]
    /\ settings = [DEFAULT_SENDING_FREQUENCY_MINUTES |-> 1,
                   DEFAULT_LAST_MINUTES_GETTING |-> 60]
    /\ uow = [s \in Sessions |-> Idle]
    /\ loop = Waiting

NextGeo ==
    \/ /\ seq.items <= MaxGeoItems
       /\ \E location \in GeoLocations, source_url \in GeoUrls :
             create_item(location, source_url)
    \/ /\ tasks = {}
       /\ \E chat_id \in ChatIds, name \in TaskNames, url \in GeoUrls,
             city_id \in CityIds, allowed_district_ids \in DistrictIdSets :
             create_task(chat_id, name, url, city_id, allowed_district_ids)
    \/ \E task \in tasks : GetItemsToSendForTask(task)

SpecGeo == InitGeo /\ [][NextGeo]_vars

----------------------------------------------------------------------------
(* The location resolver alone: item ingestion over a wider set of raw     *)
(* locations, with no monitoring task.                                     *)

\* None; ""; "W"; "W, O'"; "w,o - odswiezono" (with the marker); " w , o";
\* "K, O'"
ResolverLocations ==
    { None,
      Some(<<>>),
      Some(<<"W">>),
      Some(<<"W", ",", " ", "O'">>),
      Some(<<"w", ",", "o">> \o odswiezono),
      Some(<<" ", "w", " ", ",", " ", "o">>),
      Some(<<"K", ",", " ", "O'">>) }

NextResolver ==
    \/ /\ seq.items <= MaxItems
       /\ \E location \in ResolverLocations : create_item(location, "u1")
    \/ Tick

SpecResolver == Init /\ [][NextResolver]_vars

----------------------------------------------------------------------------
(* Item ingestion over the shapes a raw location takes: absent, empty,     *)
(* blank, empty segments, one segment, two segments, and two segments      *)
(* followed by the marker in three letter cases.                           *)

\* None; ""; " "; ","; "W"; "W, O'"; "W, O' - Odswiezono";
\* "W, O' - odswiezono"; "W, O' - ODswiezono"
IngestLocations ==
    { None,
      Some(<<>>),
      Some(<<" ">>),
      Some(<<",">>),
      Some(<<"W">>),
      Some(<<"W", ",", " ", "O'">>),
      Some(<<"W", ",", " ", "O'">> \o Odswiezono),
      Some(<<"W", ",", " ", "O'">> \o odswiezono),
      Some(<<"W", ",", " ", "O'">> \o ODswiezono) }

NextIngest ==
    /\ seq.items <= MaxItems
    /\ \E location \in IngestLocations, source_url \in Urls :
          create_item(location, source_url)

SpecIngest == InitGeo /\ [][NextIngest]_vars

----------------------------------------------------------------------------
(* The taxonomy: item ingestion next to the administration of cities and   *)
(* districts, one call at a time, with no monitoring task.                 *)

\* "W, O'"; "K, O'"
TaxonomyLocations ==
    { Some(<<"W", ",", " ", "O'">>),
      Some(<<"K", ",", " ", "O'">>) }
CityRawNames == {<<"W">>}
CityNormalizedNames == {<<"w">>, <<"k">>}
DistrictRawNames == {<<"O'">>}
DistrictNormalizedNames == {<<"o">>}
OptionalOf(S) == {None} \cup {Some(x) : x \in S}

NextTaxonomy ==
    \/ /\ seq.items <= MaxItems
       /\ seq.cities <= MaxCities
       /\ seq.districts <= MaxDistricts
       /\ \E location \in TaxonomyLocations : create_item(location, "u1")
    \/ /\ seq.cities <= MaxCities
       /\ \E name_raw \in CityRawNames,
             name_normalized \in CityNormalizedNames :
             create_city(name_raw, name_normalized)
    \/ \E city_id \in 1..MaxCities,
          name_raw \in OptionalOf(CityRawNames),
          name_normalized \in OptionalOf(CityNormalizedNames) :
          update_city(city_id, name_raw, name_normalized)
    \/ \E city_id \in 1..MaxCities : delete_city_by_id(city_id)
    \/ /\ seq.districts <= MaxDistricts
       /\ \E city_id \in 1..MaxCities,
             name_raw \in DistrictRawNames,
             name_normalized \in DistrictNormalizedNames :
             create_district(city_id, name_raw, name_normalized)
    \/ \E district_id \in 1..MaxDistricts,
          city_id \in OptionalOf(1..MaxCities),
          name_raw \in OptionalOf(DistrictRawNames),
          name_normalized \in OptionalOf(DistrictNormalizedNames) :
          update_district(district_id, city_id, name_raw, name_normalized)
    \/ \E district_id \in 1..MaxDistricts :
          delete_district_by_id(district_id)

SpecTaxonomy == InitGeo /\ [][NextTaxonomy]_vars

----------------------------------------------------------------------------
(* The districts table: item ingestion next to the administration of       *)
(* districts, one call at a time.  The cities are those ingestion creates. *)

NextDistricts ==
    \/ /\ seq.items <= MaxItems
       /\ seq.districts <= MaxDistricts
       /\ \E location \in TaxonomyLocations : create_item(location, "u1")
    \/ /\ seq.districts <= MaxDistricts
       /\ \E city_id \in 1..MaxCities,
             name_raw \in DistrictRawNames,
             name_normalized \in DistrictNormalizedNames :
             create_district(city_id, name_raw, name_normalized)
    \/ \E district_id \in 1..MaxDistricts,
          city_id \in OptionalOf(1..MaxCities),
          name_raw \in OptionalOf(DistrictRawNames),
          name_normalized \in OptionalOf(DistrictNormalizedNames) :
          update_district(district_id, city_id, name_raw, name_normalized)
    \/ \E district_id \in 1..MaxDistricts :
          delete_district_by_id(district_id)

SpecDistricts == InitGeo /\ [][NextDistricts]_vars

----------------------------------------------------------------------------
(* The references of the items: item ingestion next to the operations that *)
(* write taxonomy rows items already name (no row is deleted).             *)

NextReferences ==
    \/ /\ seq.items <= MaxItems
       /\ \E location \in GeoLocations : create_item(location, "u1")
    \/ /\ seq.districts <= MaxDistricts
       /\ \E city_id \in 1..MaxCities,
             name_raw \in DistrictRawNames,
             name_normalized \in DistrictNormalizedNames :
             create_district(city_id, name_raw, name_normalized)
    \/ \E district_id \in 1..MaxDistricts,
          city_id \in OptionalOf(1..MaxCities),
          name_normalized \in OptionalOf(DistrictNormalizedNames) :
          update_district(district_id, city_id, None, name_normalized)
    \/ \E city_id \in 1..MaxCities,
          name_normalized \in OptionalOf(CityNormalizedNames) :
          update_city(city_id, None, name_normalized)

SpecReferences == InitGeo /\ [][NextReferences]_vars

----------------------------------------------------------------------------
(* Two ingestion requests served at once, on a store that nothing else     *)
(* writes to.                                                              *)

\* "W"; "w": two spellings of one city.
RaceLocations == {Some(<<"W">>), Some(<<"w">>)}

\* The requests in progress.
InFlight == Cardinality({s \in Sessions : uow[s].pc # "idle"})

NextRace ==
    \/ /\ seq.items + InFlight <= MaxItems
       /\ \E s \in Sessions, location \in RaceLocations :
             create_item_parse(s, location, "u1")
    \/ \E s \in Sessions : _get_or_create_city_query(s)
    \/ \E s \in Sessions : _get_or_create_city_flush(s)
    \/ \E s \in Sessions : _get_or_create_district_query(s)
    \/ \E s \in Sessions : _get_or_create_district_flush(s)
    \/ \E s \in Sessions : create_item_commit(s)

SpecRace == InitGeo /\ [][NextRace]_vars

----------------------------------------------------------------------------
(* The cities table under every writer it has: two requests served at once *)
(* (ingestions and city creations) next to updates and deletes of cities.  *)

\* Rows a session has flushed hold locks: an UPDATE into a name_normalized
\* that a flushed row holds, and a DELETE of a city that a flushed district
\* names, wait for that session to end.
NoFlushedCityNamed(name_normalized) ==
    \A s \in Sessions : \A c \in uow[s].cities :
        Some(c.name_normalized) # name_normalized
NoFlushedDistrictOf(city_id) ==
    \A s \in Sessions : \A d \in uow[s].districts : d.city_id # city_id

NextCities ==
    \/ /\ seq.items + InFlight <= MaxItems
       /\ seq.cities + InFlight <= MaxCities
       /\ \E s \in Sessions, location \in RaceLocations :
             create_item_parse(s, location, "u1")
    \/ \E s \in Sessions : _get_or_create_city_query(s)
    \/ \E s \in Sessions : _get_or_create_city_flush(s)
    \/ \E s \in Sessions : _get_or_create_district_query(s)
    \/ \E s \in Sessions : _get_or_create_district_flush(s)
    \/ \E s \in Sessions : create_item_commit(s)
    \/ /\ seq.cities + InFlight <= MaxCities
       /\ \E s \in Sessions, name_normalized \in CityNormalizedNames :
             create_city_query(s, <<"W">>, name_normalized)
    \/ \E s \in Sessions : create_city_commit(s)
    \/ \E city_id \in 1..MaxCities,
          name_normalized \in OptionalOf(CityNormalizedNames) :
          /\ NoFlushedCityNamed(name_normalized)
          /\ update_city(city_id, None, name_normalized)
    \/ \E city_id \in 1..MaxCities :
          /\ NoFlushedDistrictOf(city_id)
          /\ delete_city_by_id(city_id)

SpecCities == InitGeo /\ [][NextCities]_vars

----------------------------------------------------------------------------
(* The monitoring tasks of two chats: creation, update and the deletions,  *)
(* one call at a time, with no geography filter.                           *)

TaskChatIds == {"c1", "c2"}
AllTaskNames == {"n1", "n2"}

NextTasks ==
    \/ /\ seq.tasks <= MaxTasks
       /\ \E chat_id \in TaskChatIds, name \in AllTaskNames, url \in Urls :
             create_task(chat_id, name, url, None, {})
    \/ \E task_id \in 1..MaxTasks, name \in OptionalOf(AllTaskNames),
          url \in OptionalOf(Urls) :
          update_task(task_id, name, url, None, None)
    \/ \E chat_id \in TaskChatIds, name \in OptionalOf(AllTaskNames) :
          delete_task_by_chat_id(chat_id, name)
    \/ \E task_id \in 1..MaxTasks : delete_task_by_id(task_id)

SpecTasks == InitGeo /\ [][NextTasks]_vars

----------------------------------------------------------------------------
(* One task whose every request carries the district ids                   *)
(* RequestedDistrictIds, next to item ingestion and district deletion.     *)

RequestedDistrictIds == {2, 3}

NextRestriction ==
    \/ /\ seq.items <= MaxItems
       /\ \E location \in GeoLocations : create_item(location, "u1")
    \/ /\ tasks = {}
       /\ \E chat_id \in ChatIds, name \in TaskNames :
             create_task(chat_id, name, "u1", None, RequestedDistrictIds)
    \/ \E task_id \in 1..MaxTasks :
          update_task(task_id, None, None, None, Some(RequestedDistrictIds))
    \/ \E district_id \in 1..(MaxDistricts + 1) :
          delete_district_by_id(district_id)
    \/ \E task \in tasks : GetItemsToSendForTask(task)

SpecRestriction == InitGeo /\ [][NextRestriction]_vars

----------------------------------------------------------------------------
(* The delivery loop of one task next to item ingestion, under a running   *)
(* clock; the task has no geography filter.                                *)

LoopTaskId == 1

NextLoop ==
    \/ /\ seq.items <= MaxItems
       /\ \E location \in Locations, source_url \in Urls :
             create_item(location, source_url)
    \/ /\ tasks = {}
       /\ \E chat_id \in ChatIds, name \in TaskNames, url \in Urls :
             create_task(chat_id, name, url, None, {})
    \/ LoopDispatch(LoopTaskId)
    \/ LoopUpdate(LoopTaskId)
    \/ Tick

SpecLoop == InitGeo /\ [][NextLoop]_vars

----------------------------------------------------------------------------
(* The timestamps of the tasks of one chat: every task operation that      *)
(* writes or reads last_got_item, under a running clock and the windows at *)
(* their configured defaults.                                              *)

NextStamps ==
    \/ /\ seq.tasks <= MaxTasks
       /\ \E chat_id \in ChatIds, name \in AllTaskNames, url \in Urls :
             create_task(chat_id, name, url, None, {})
    \/ \E task_id \in 1..MaxTasks, name \in OptionalOf(AllTaskNames) :
          update_task(task_id, name, None, None, None)
    \/ \E task_id \in 1..MaxTasks : update_last_got_item_by_id(task_id)
    \/ \E chat_id \in ChatIds : update_last_got_item(chat_id)
    \/ \E task \in tasks : GetItemsToSendForTask(task)
    \/ GetPendingTasks
    \/ Tick

SpecStamps == InitGeo /\ [][NextStamps]_vars

----------------------------------------------------------------------------
(* Deletion of the tasks of a chat.  A task name is any string of at most  *)
(* 64 characters, the empty one included.                                  *)

DeleteNames == {"", "n1"}

NextDelete ==
    \/ /\ seq.tasks <= MaxTasks
       /\ \E chat_id \in TaskChatIds, name \in DeleteNames, url \in Urls :
             create_task(chat_id, name, url, None, {})
    \/ \E chat_id \in TaskChatIds, name \in OptionalOf(DeleteNames) :
          delete_task_by_chat_id(chat_id, name)

SpecDelete == InitGeo /\ [][NextDelete]_vars

----------------------------------------------------------------------------
(* The fields of a monitoring task: creation, and updates sent as request  *)
(* bodies that carry regular fields and GraphQL capture fields.            *)

GraphqlFields == {"graphql_endpoint", "graphql_payload", "graphql_headers",
                  "graphql_captured_at"}

\* Request bodies: a name or none, and each capture field given or not.
UpdateBodies ==
    [name : OptionalOf(AllTaskNames),
     graphql_endpoint : OptionalOf({"e1"}),
     graphql_payload : OptionalOf({"p1"}),
     graphql_headers : OptionalOf({"h1"}),
     graphql_captured_at : OptionalOf({1})]

NextCapture ==
    \/ /\ seq.tasks <= MaxTasks
       /\ \E chat_id \in ChatIds, name \in AllTaskNames, url \in Urls :
             create_task(chat_id, name, url, None, {})
    \/ \E task_id \in 1..MaxTasks, body \in UpdateBodies :
          update_task_request(task_id, body)

SpecCapture == InitGeo /\ [][NextCapture]_vars

----------------------------------------------------------------------------
(* The two string functions of the resolver alone, each applied once to an *)
(* argument that ranges over the strings of at most MaxLen characters over *)
(* Alphabet (and over None for the location).                              *)

Alphabet == {" ", ",", "W", "U+4E00"}

RECURSIVE StringsOfLen(_)
StringsOfLen(n) ==
    IF n = 0 THEN {<<>>}
    ELSE {<<c>> \o t : c \in Alphabet, t \in StringsOfLen(n - 1)}

Strings == UNION {StringsOfLen(n) : n \in 0..MaxLen}

InitStrings ==
    /\ EmptyStore
    /\ now = 0
    /\ settings = [DEFAULT_SENDING_FREQUENCY_MINUTES |-> 1,
                   DEFAULT_LAST_MINUTES_GETTING |-> 60]
    /\ uow = [s \in Sessions |-> Idle]
    /\ loop = Waiting
    /\ res \in [op : {"argument"}, error : {"none"},
                arg : {None} \cup {Some(t) : t \in Strings}]

NormalizeName ==
    /\ res.op = "argument"
    /\ res.arg # None
    /\ res' = [op |-> "_normalize_name", error |-> "none",
               name |-> Val(res.arg), out |-> _normalize_name(Val(res.arg))]
    /\ UNCHANGED <<store, now, settings, loop, uow>>

ParseLocation ==
    /\ res.op = "argument"
    /\ res' = [op |-> "_parse_location", error |-> "none",
               location |-> res.arg, out |-> _parse_location(res.arg)]
    /\ UNCHANGED <<store, now, settings, loop, uow>>

NextStrings ==
    \/ NormalizeName
    \/ ParseLocation

SpecStrings == InitStrings /\ [][NextStrings]_vars

----------------------------------------------------------------------------
(* Vocabulary of the properties below, stated from the contract of the     *)
(* matcher and not from its code.                                          *)

Dispatched == res.op = "get_items_to_send_for_task"
DispatchedById == res.op = "get_items_to_send_for_task_by_id"

\* The item row of an id, and whether a row is in the list a call returned.
ItemOf(id) == CHOOSE i \in items : i.id = id
Returned(i) == \E k \in DOMAIN res.out : res.out[k] = i.id

Max(a, b) == IF a >= b THEN a ELSE b
LargerWindow == Max(settings.DEFAULT_SENDING_FREQUENCY_MINUTES,
                    settings.DEFAULT_LAST_MINUTES_GETTING)

PassesTime(task, i) ==
    \/ task.last_got_item # None /\ i.first_seen > Val(task.last_got_item)
    \/ task.last_got_item = None /\ i.first_seen > now - LargerWindow
PassesSource(task, i) == i.source_url = task.url
UnknownCityIds == {c.id : c \in {x \in cities : x.name_normalized = unknown}}
UnknownDistrictIds == {d.id : d \in {x \in districts : x.name_normalized = unknown}}
AllowedIds(task) ==
    {m.district_id : m \in {x \in monitoring_task_districts :
                                x.monitoring_task_id = task.id}}
InCity(i, ids) == i.city_id # None /\ Val(i.city_id) \in ids
InDistrict(i, ids) == i.district_id # None /\ Val(i.district_id) \in ids
NoGeography(task) == task.city_id = None /\ AllowedIds(task) = {}

----------------------------------------------------------------------------
\* C1: for a task whose last_got_item is T, a returned item always has
\* first_seen > T (an item with first_seen <= T, first_seen = T included, is
\* never returned), whatever the two configured windows and the clock; and
\* an item of the task's source with first_seen > T is returned when the
\* task has no geography filter.
C1_SinceLastGotItem ==
    (Dispatched /\ res.task.last_got_item # None) =>
        \A i \in items :
            LET T == Val(res.task.last_got_item)
            IN /\ Returned(i) => i.first_seen > T
               /\ i.first_seen <= T => ~Returned(i)
               /\ (NoGeography(res.task) /\ PassesSource(res.task, i)
                     /\ i.first_seen > T) => Returned(i)

\* A dispatch for a task with last_got_item = T that drops an item seen
\* exactly at T and returns one seen after T, T lying inside the default
\* window.
C1_Witness ==
    /\ Dispatched
    /\ res.task.last_got_item # None
    /\ \E i, j \in items :
          /\ i.first_seen = Val(res.task.last_got_item)
          /\ i.first_seen > now - LargerWindow
          /\ PassesSource(res.task, i)
          /\ ~Returned(i)
          /\ j.first_seen > Val(res.task.last_got_item)
          /\ Returned(j)

C3_SourceUrl ==
    /\ Dispatched => \A i \in items : Returned(i) => i.source_url = res.task.url
    /\ DispatchedById =>
          \A i \in items : Returned(i) =>
              \E t \in tasks : t.id = res.task_id /\ i.source_url = t.url

\* A dispatch with a city filter that drops an item of another source whose
\* city is the 'unknown' city, and returns an item of the task's source.
C3_Witness ==
    /\ Dispatched
    /\ res.task.city_id # None
    /\ \E i, j \in items :
          /\ i.source_url # res.task.url
          /\ InCity(i, UnknownCityIds)
          /\ PassesTime(res.task, i)
          /\ ~Returned(i)
          /\ Returned(j)

\* C4: for a task with city_id = X and no allowed districts, an item that
\* passes the time and source filters is returned exactly when its city_id
\* is X or the id of the city whose name_normalized is 'unknown'.
C4_CityFilter ==
    (Dispatched /\ res.task.city_id # None /\ AllowedIds(res.task) = {}) =>
        \A i \in items :
            (PassesTime(res.task, i) /\ PassesSource(res.task, i)) =>
                (Returned(i) <=>
                    InCity(i, {Val(res.task.city_id)} \cup UnknownCityIds))

\* A dispatch for city X that returns an item of the 'unknown' city and
\* drops an item of another city Y.
C4_Witness ==
    /\ Dispatched
    /\ res.task.city_id # None
    /\ AllowedIds(res.task) = {}
    /\ Val(res.task.city_id) \notin UnknownCityIds
    /\ \E i, j \in items :
          /\ InCity(i, UnknownCityIds)
          /\ Returned(i)
          /\ PassesTime(res.task, j) /\ PassesSource(res.task, j)
          /\ ~InCity(j, {Val(res.task.city_id)} \cup UnknownCityIds)
          /\ ~Returned(j)

\* C5: for a task with allowed districts and no city filter, the items
\* returned among those that pass the time and source filters are exactly
\* the items of the allowed districts and of the 'unknown' district (one
\* district row named 'unknown', the only one in the scenario); an item of
\* a district that is neither allowed nor named 'unknown' is not returned.
C5_DistrictFilter ==
    (Dispatched /\ res.task.city_id = None /\ AllowedIds(res.task) # {}) =>
        /\ \E U \in (IF UnknownDistrictIds = {} THEN {{}}
                     ELSE {{u} : u \in UnknownDistrictIds}) :
              \A i \in items :
                  (PassesTime(res.task, i) /\ PassesSource(res.task, i)) =>
                      (Returned(i) <=>
                          InDistrict(i, AllowedIds(res.task) \cup U))
        /\ \A i \in items :
              ~InDistrict(i, AllowedIds(res.task) \cup UnknownDistrictIds)
                  => ~Returned(i)

\* A dispatch for allowed districts that returns an item of the one
\* 'unknown' district, which is not allowed, and drops an item of a third
\* district.
C5_Witness ==
    /\ Dispatched
    /\ res.task.city_id = None
    /\ AllowedIds(res.task) # {}
    /\ Cardinality(UnknownDistrictIds) = 1
    /\ \E i, j \in items :
          /\ InDistrict(i, UnknownDistrictIds \ AllowedIds(res.task))
          /\ Returned(i)
          /\ PassesTime(res.task, j) /\ PassesSource(res.task, j)
          /\ ~InDistrict(j, AllowedIds(res.task) \cup UnknownDistrictIds)
          /\ ~Returned(j)

\* C6: for a task with allowed districts, every item that passes the
\* time, source and city filters and whose district row is named 'unknown'
\* is returned, whichever city that district row belongs to.
C6_EveryUnknownDistrictIncluded ==
    (Dispatched /\ AllowedIds(res.task) # {}) =>
        \A i \in items :
            ( /\ PassesTime(res.task, i)
              /\ PassesSource(res.task, i)
              /\ \/ res.task.city_id = None
                 \/ InCity(i, {Val(res.task.city_id)} \cup UnknownCityIds)
              /\ InDistrict(i, UnknownDistrictIds) ) => Returned(i)

\* C7: with no city named 'unknown' the city filter is item.city_id =
\* task.city_id, with no district named 'unknown' the district filter is
\* membership in the allowed ids, and the call returns without an error.
C7_NoSentinel ==
    /\ (Dispatched /\ res.task.city_id # None /\ UnknownCityIds = {}) =>
          /\ res.error = "none"
          /\ \A i \in items :
                /\ Returned(i) => i.city_id = res.task.city_id
                /\ ( /\ AllowedIds(res.task) = {}
                     /\ PassesTime(res.task, i) /\ PassesSource(res.task, i)
                     /\ i.city_id = res.task.city_id ) => Returned(i)
    /\ (Dispatched /\ AllowedIds(res.task) # {} /\ UnknownDistrictIds = {}) =>
          /\ res.error = "none"
          /\ \A i \in items :
                /\ Returned(i) => InDistrict(i, AllowedIds(res.task))
                /\ ( /\ res.task.city_id = None
                     /\ PassesTime(res.task, i) /\ PassesSource(res.task, i)
                     /\ InDistrict(i, AllowedIds(res.task)) ) => Returned(i)

\* A dispatch with a city filter and allowed districts over a taxonomy that
\* has neither sentinel, returning one item and dropping an item of another
\* city.
C7_Witness ==
    /\ Dispatched
    /\ res.error = "none"
    /\ res.task.city_id # None
    /\ AllowedIds(res.task) # {}
    /\ UnknownCityIds = {}
    /\ UnknownDistrictIds = {}
    /\ \E i, j \in items :
          /\ Returned(i)
          /\ PassesTime(res.task, j) /\ PassesSource(res.task, j)
          /\ j.city_id # res.task.city_id
          /\ ~Returned(j)

\* C8: the list returned holds every eligible item once (no cap) and is
\* sorted by first_seen descending.
C8_AllNewestFirst ==
    Dispatched =>
        /\ \A j, k \in DOMAIN res.out :
              /\ j # k => res.out[j] # res.out[k]
              /\ j < k => ItemOf(res.out[j]).first_seen
                             >= ItemOf(res.out[k]).first_seen
        /\ \A i \in items :
              ( /\ PassesTime(res.task, i)
                /\ PassesSource(res.task, i)
                /\ \/ res.task.city_id = None
                   \/ InCity(i, {Val(res.task.city_id)} \cup UnknownCityIds)
                /\ \/ AllowedIds(res.task) = {}
                   \/ InDistrict(i, AllowedIds(res.task)) ) => Returned(i)

\* A dispatch that returns two items seen at different times.
C8_Witness ==
    /\ Dispatched
    /\ Len(res.out) >= 2
    /\ ItemOf(res.out[1]).first_seen > ItemOf(res.out[2]).first_seen

\* C9: get_items_to_send_for_task_by_id returns the empty list, and no
\* error, for an id that is not in the store, and for a stored id one of
\* the lists get_items_to_send_for_task returns for that task.
C9_ById ==
    DispatchedById =>
        /\ res.error = "none"
        /\ (\A t \in tasks : t.id # res.task_id) => res.out = <<>>
        /\ \A t \in tasks :
              t.id = res.task_id => res.out \in get_items_to_send_for_task(t)

\* A call by an id that is not stored, made while a stored task has an item
\* to send.
C9_Witness ==
    /\ DispatchedById
    /\ \A t \in tasks : t.id # res.task_id
    /\ res.out = <<>>
    /\ \E t \in tasks : get_items_to_send_for_task(t) # {<<>>}

\* The normalized names create_item parsed for an item (item.location is
\* the cleaned location it parsed).
ParsedCity(i) == _normalize_name(_parse_location(i.location)[1])
ParsedDistrict(i) == _normalize_name(_parse_location(i.location)[2])

\* C10: a create_item call whose parsed city has a row with the same
\* name_normalized adds no city and at most one district, which is scoped
\* to that city; and after any run of create_item calls from the empty
\* taxonomy, items whose parsed names have equal normalized forms reference
\* the same City and District rows, no two rows share a key, and two such
\* items leave exactly one City row and one District row.
C10_GetOrCreateIdempotent ==
    [][ \A it \in items' \ items :
          /\ (\E c \in cities : c.name_normalized = ParsedCity(it)) =>
                /\ cities' = cities
                /\ Cardinality(districts' \ districts) <= 1
                /\ \A d \in districts' \ districts :
                      /\ it.city_id = Some(d.city_id)
                      /\ \E c \in cities : /\ c.id = d.city_id
                                           /\ c.name_normalized = ParsedCity(it)
          /\ \A c1, c2 \in cities' :
                c1.name_normalized = c2.name_normalized => c1 = c2
          /\ \A d1, d2 \in districts' :
                ( /\ d1.city_id = d2.city_id
                  /\ d1.name_normalized = d2.name_normalized ) => d1 = d2
          /\ \A i, j \in items' :
                /\ ParsedCity(i) = ParsedCity(j) => i.city_id = j.city_id
                /\ ( /\ ParsedCity(i) = ParsedCity(j)
                     /\ ParsedDistrict(i) = ParsedDistrict(j) )
                      => i.district_id = j.district_id
                /\ ( /\ i # j
                     /\ Cardinality(items') = 2
                     /\ ParsedCity(i) = ParsedCity(j)
                     /\ ParsedDistrict(i) = ParsedDistrict(j) )
                      => /\ Cardinality(cities') = 1
                         /\ Cardinality(districts') = 1
                         /\ \A c \in cities' : i.city_id = Some(c.id)
                         /\ \A d \in districts' : i.district_id = Some(d.id)
      ]_vars

\* Two items whose raw city and district names differ and normalize alike,
\* on one City row and one District row.
C10_Witness ==
    /\ Cardinality(items) = 2
    /\ Cardinality(cities) = 1
    /\ Cardinality(districts) = 1
    /\ \E i, j \in items :
          /\ _parse_location(i.location)[1] # _parse_location(j.location)[1]
          /\ _parse_location(i.location)[2] # _parse_location(j.location)[2]
          /\ ParsedCity(i) = ParsedCity(j)
          /\ ParsedDistrict(i) = ParsedDistrict(j)
          /\ i.city_id = j.city_id
          /\ i.district_id = j.district_id

----------------------------------------------------------------------------
(* Vocabulary of the string properties: positions and trimming stated on   *)
(* the characters, not through split and strip.                            *)

Parsed == res.op = "_parse_location"
Normalized == res.op = "_normalize_name"

Blank(t) == \A k \in 1..Len(t) : t[k] = " "
Commas(t) == {k \in 1..Len(t) : t[k] = ","}
Least(S) == CHOOSE k \in S : \A h \in S : k <= h
Greatest(S) == CHOOSE k \in S : \A h \in S : k >= h

\* t without its leading and trailing blanks.
Trimmed(t) ==
    LET inked == {k \in 1..Len(t) : t[k] # " "}
    IN IF inked = {} THEN <<>> ELSE SubSeq(t, Least(inked), Greatest(inked))

\* The text before the first comma and the text between the first comma and
\* the second one (or the end).
FirstSegment(t) == SubSeq(t, 1, Least(Commas(t)) - 1)
SecondSegment(t) ==
    LET k1 == Least(Commas(t))
        later == {k \in Commas(t) : k > k1}
    IN SubSeq(t, k1 + 1, IF later = {} THEN Len(t) ELSE Least(later) - 1)

\* C12: _parse_location gives ('Unknown', 'Unknown') for a null, empty or
\* whitespace-only location, (trimmed string, 'Unknown') for a string with
\* no comma, and (trimmed first segment, trimmed second segment) for a
\* string with one or more commas, whatever follows the second segment.
C12_ParseLocation ==
    Parsed =>
        IF res.location = None \/ Blank(Val(res.location))
        THEN res.out = <<Unknown, Unknown>>
        ELSE IF Commas(Val(res.location)) = {}
        THEN res.out = <<Trimmed(Val(res.location)), Unknown>>
        ELSE res.out = <<Trimmed(FirstSegment(Val(res.location))),
                         Trimmed(SecondSegment(Val(res.location)))>>

\* A location of three segments, the third of which is not the second: the
\* pair holds the first two.
C12_Witness ==
    /\ Parsed
    /\ res.location # None
    /\ Cardinality(Commas(Val(res.location))) = 2
    /\ res.out[1] # <<>>
    /\ res.out[2] # <<>>
    /\ LET t == Val(res.location)
       IN Trimmed(SubSeq(t, Greatest(Commas(t)) + 1, Len(t))) \notin
              {<<>>, res.out[2]}

\* C15: _normalize_name applied to a normalized name gives that name back.
C15_NormalizeIdempotent ==
    Normalized => _normalize_name(res.out) = res.out

\* A name that normalization changes in all three ways: a transliteration
\* that brings in an upper-case letter and a trailing blank.
C15_Witness ==
    /\ Normalized
    /\ \E k \in 1..Len(res.name) : res.name[k] = "U+4E00"
    /\ unidecode(res.name) # res.name
    /\ lower(unidecode(res.name)) # unidecode(res.name)
    /\ res.out # lower(unidecode(res.name))
    /\ _normalize_name(res.out) = res.out

----------------------------------------------------------------------------
\* C13: create_item ends without an error for every location, and every
\* stored item has a city_id and a district_id that are not null and name
\* existing rows, the district being one of that city; for a null or empty
\* location these are the rows whose name_normalized is 'unknown'.
C13_ResolutionTotal ==
    /\ res.op = "create_item" => res.error = "none"
    /\ \A i \in items :
          /\ i.city_id # None
          /\ i.district_id # None
          /\ \E c \in cities, d \in districts :
                /\ c.id = Val(i.city_id)
                /\ d.id = Val(i.district_id)
                /\ d.city_id = c.id
                /\ (i.location = None \/ Val(i.location) = <<>>) =>
                      /\ c.name_normalized = unknown
                      /\ d.name_normalized = unknown

\* Two items: one without a location on the 'unknown' pair, one of two
\* empty segments on a city and a district of its own.
C13_Witness ==
    /\ res.op = "create_item"
    /\ \E i, k \in items :
          /\ i.location = None
          /\ k.location = Some(<<",">>)
          /\ i.city_id # k.city_id
          /\ \E d \in districts : /\ d.id = Val(i.district_id)
                                   /\ d.name_normalized = unknown
          /\ \E d \in districts : d.id = Val(k.district_id) /\ d.name_raw = <<>>

\* The word of the noise marker, and whether a text holds it in any letter
\* case.
MarkerWord == SubSeq(odswiezono, 4, Len(odswiezono))
Contains(t, w) ==
    \E k \in 1..(Len(t) - Len(w) + 1) : SubSeq(t, k, k + Len(w) - 1) = w
HasMarker(t) == Contains(lower(t), MarkerWord)

\* C14: whatever the letter case of the marker in the raw location, the
\* location stored with the item and the name of the district the item
\* resolves to do not hold the marker.
C14_MarkerStrippedAnyCase ==
    \A i \in items :
        /\ i.location # None => ~HasMarker(Val(i.location))
        /\ \A d \in districts :
              i.district_id = Some(d.id) => ~HasMarker(d.name_raw)

----------------------------------------------------------------------------
\* C17: in every state no two District rows share (city_id,
\* name_normalized); a create_item call gives its item a district row of
\* the item's city that bears the parsed district name, so that a district
\* name already held by a row of another city is held by a second row.
C17_DistrictScopedUnique ==
    [][ /\ \A d1, d2 \in districts' :
              ( \/ d1.id = d2.id
                \/ /\ d1.city_id = d2.city_id
                   /\ d1.name_normalized = d2.name_normalized ) => d1 = d2
        /\ \A it \in items' \ items :
              res'.op = "create_item" =>
                 /\ \E d \in districts' :
                       /\ it.district_id = Some(d.id)
                       /\ it.city_id = Some(d.city_id)
                       /\ d.name_normalized = ParsedDistrict(it)
                 /\ \A d \in districts :
                       ( /\ d.name_normalized = ParsedDistrict(it)
                         /\ it.city_id # Some(d.city_id) ) =>
                           /\ it.district_id # Some(d.id)
                           /\ \E e \in districts' :
                                 /\ e # d
                                 /\ e.name_normalized = d.name_normalized
                                 /\ it.district_id = Some(e.id)
      ]_vars

\* Two items ingested for the same district name in two cities, on two
\* District rows that bear the same name_normalized.
C17_Witness ==
    /\ res.op = "create_item"
    /\ \E i, j \in items, d1, d2 \in districts :
          /\ ParsedDistrict(i) = ParsedDistrict(j)
          /\ ParsedCity(i) # ParsedCity(j)
          /\ i.district_id = Some(d1.id)
          /\ j.district_id = Some(d2.id)
          /\ d1 # d2
          /\ d1.name_normalized = d2.name_normalized
          /\ d1.city_id # d2.city_id
          /\ i.city_id = Some(d1.city_id)
          /\ j.city_id = Some(d2.city_id)

\* C18: in every state the name_normalized of each City row is the
\* normalization of its name_raw.
C18_NormalizedDerivedFromRaw ==
    \A c \in cities : c.name_normalized = _normalize_name(c.name_raw)

\* C19: delete_city_by_id on a city that has districts and items ends
\* without an error; afterwards the city and its districts are gone, every
\* item is still stored and no item names the city or one of its districts.
C19_DeleteCityCascades ==
    [][ \A c \in cities :
          ( /\ res'.op = "delete_city_by_id"
            /\ res'.city_id = c.id
            /\ \E d \in districts : d.city_id = c.id
            /\ \E i \in items : i.city_id = Some(c.id) ) =>
              /\ res'.error = "none"
              /\ res'.value = TRUE
              /\ c \notin cities'
              /\ \A d \in districts' : d.city_id # c.id
              /\ {i.id : i \in items'} = {i.id : i \in items}
              /\ \A i \in items' :
                    /\ i.city_id # Some(c.id)
                    /\ \A d \in districts :
                          d.city_id = c.id => i.district_id # Some(d.id)
      ]_vars

----------------------------------------------------------------------------
\* C11: when two create_item calls run at once for a city (or district)
\* name that neither finds, no call ends with an error: the one whose
\* INSERT meets the unique constraint looks the row up again, so that one
\* row bears the name and the items of both calls reference it.
C11_RaceResolvedByLookup ==
    /\ res.op = "create_item" => res.error = "none"
    /\ (\A s \in Sessions : uow[s].pc = "idle") =>
          \A i, j \in items :
              ParsedCity(i) = ParsedCity(j) =>
                  /\ i.city_id = j.city_id
                  /\ Cardinality({c \in cities :
                                     c.name_normalized = ParsedCity(i)}) = 1

\* C16: in every committed state no two City rows have the same
\* name_normalized, whatever create_city, update_city, delete_city_by_id
\* and create_item calls ran, one after another or at once.
C16_CityNameUnique ==
    \A c1, c2 \in cities :
        (c1.id = c2.id \/ c1.name_normalized = c2.name_normalized) => c1 = c2

\* A request that found the name free and lost it to a request served at
\* the same time: its INSERT is refused and the name is held by one row.
C16_Witness ==
    /\ res.op \in {"create_item", "create_city"}
    /\ res.error = "IntegrityError"
    /\ \E c \in cities : c.name_normalized = <<"w">>
    /\ \E i \in items : ParsedCity(i) = <<"w">>

----------------------------------------------------------------------------
\* C20: in every state no two MonitoringTask rows share (chat_id, name);
\* create_task adds a row under a free (chat_id, name) or changes nothing,
\* and an update_task that would give a task the (chat_id, name) of another
\* task ends with an error and changes no task.
C20_TaskNameUnique ==
    [][ /\ \A t1, t2 \in tasks' :
              ( \/ t1.id = t2.id
                \/ t1.chat_id = t2.chat_id /\ t1.name = t2.name ) => t1 = t2
        /\ res'.op = "create_task" =>
              /\ tasks \subseteq tasks'
              /\ res'.error # "none" => tasks' = tasks
              /\ \A t \in tasks' \ tasks : \A u \in tasks :
                    ~(u.chat_id = t.chat_id /\ u.name = t.name)
        /\ ( /\ res'.op = "update_task"
             /\ res'.name # None
             /\ \E t, u \in tasks : /\ t.id = res'.task_id
                                     /\ u.id # t.id
                                     /\ u.chat_id = t.chat_id
                                     /\ u.name = Val(res'.name) ) =>
              /\ res'.error # "none"
              /\ tasks' = tasks
              /\ monitoring_task_districts' = monitoring_task_districts
      ]_vars

\* A chat with two tasks after an update_task that tried to give one the
\* name of the other, and a create_task refused before it.
C20_Witness ==
    /\ res.op = "update_task"
    /\ res.error = "IntegrityError"
    /\ \E t, u \in tasks : /\ t.id = res.task_id
                            /\ u.id # t.id
                            /\ u.chat_id = t.chat_id
                            /\ u.name = Val(res.name)
                            /\ t.name # u.name

----------------------------------------------------------------------------
\* C21: a create_task call for a (chat_id, url) that a task of that chat
\* already has ends with ValueError, and the tasks and their allowed
\* districts are the same before and after it.
C21_DuplicateUrlRejected ==
    [][ ( /\ res'.op = "create_task"
          /\ \E t \in tasks : /\ t.chat_id = res'.chat_id
                                /\ t.url = res'.url ) =>
            /\ res'.error = "ValueError"
            /\ tasks' = tasks
            /\ monitoring_task_districts' = monitoring_task_districts
      ]_vars

\* A create_task refused for its url alone: the name is free in the chat,
\* and a task of another chat has the same url.
C21_Witness ==
    /\ res.op = "create_task"
    /\ res.error = "ValueError"
    /\ \E t \in tasks : t.chat_id = res.chat_id /\ t.url = res.url
    /\ \A t \in tasks : t.chat_id = res.chat_id => t.name # res.name
    /\ \E t \in tasks : t.chat_id # res.chat_id /\ t.url = res.url

----------------------------------------------------------------------------
\* C22: an update of a stored task whose request carries GraphQL capture
\* fields, alone or with regular fields, ends without an error and leaves
\* each supplied capture field on the stored task.
C22_GraphqlFieldsApplied ==
    [][ \A task_id \in 1..MaxTasks, body \in UpdateBodies :
          ( /\ res'.op = "update_task"
            /\ \E t \in tasks : t.id = task_id
            /\ update_task_request(task_id, body) ) =>
              /\ res'.error = "none"
              /\ \A t \in tasks' :
                    t.id = task_id =>
                       \A f \in GraphqlFields :
                           body[f] # None => t[f] = body[f]
      ]_vars

----------------------------------------------------------------------------
\* C23: delete_task_by_chat_id(chat_id, name) with a name removes exactly
\* the task of that (chat_id, name), at most one, and with no name exactly
\* the tasks of the chat; every other task stays, the call returns True
\* iff a task was removed, and the store is unchanged when it returns False.
C23_DeleteByChatFrame ==
    [][ \A chat_id \in TaskChatIds, name \in OptionalOf(DeleteNames) :
          ( /\ res'.op = "delete_task_by_chat_id"
            /\ delete_task_by_chat_id(chat_id, name) ) =>
              LET gone == tasks \ tasks'
              IN /\ tasks' \subseteq tasks
                 /\ name # None =>
                       /\ gone = {t \in tasks : /\ t.chat_id = chat_id
                                                 /\ t.name = Val(name)}
                       /\ Cardinality(gone) <= 1
                 /\ name = None => gone = {t \in tasks : t.chat_id = chat_id}
                 /\ res'.value = (gone # {})
                 /\ res'.value = FALSE => UNCHANGED store
      ]_vars

----------------------------------------------------------------------------
\* C24: update_last_got_item_by_id(task_id) on a stored id returns True and
\* changes the last_got_item of that task to the current time and nothing
\* else in the store; on an id that is not stored it returns False and
\* changes nothing.  A create_task, update_task,
\* get_items_to_send_for_task or get_pending_tasks call leaves the
\* last_got_item of every task as it was (unset, for a task just created).
C24_LastGotItemFrame ==
    [][ /\ \A task_id \in 1..MaxTasks :
              ( /\ res'.op = "update_last_got_item_by_id"
                /\ update_last_got_item_by_id(task_id) ) =>
                  /\ res'.value = (\E t \in tasks : t.id = task_id)
                  /\ {t.id : t \in tasks'} = {t.id : t \in tasks}
                  /\ \A t \in tasks, u \in tasks' :
                        u.id = t.id =>
                           /\ t.id = task_id => u.last_got_item = Some(now)
                           /\ t.id # task_id => u = t
                           /\ \A f \in DOMAIN t \ {"last_got_item"} :
                                 u[f] = t[f]
                  /\ UNCHANGED <<cities, districts, items,
                                 monitoring_task_districts, seq>>
        /\ res'.op \in {"create_task", "update_task",
                        "get_items_to_send_for_task", "get_pending_tasks"} =>
              \A u \in tasks' :
                  /\ \A t \in tasks : u.id = t.id =>
                                          u.last_got_item = t.last_got_item
                  /\ (\A t \in tasks : u.id # t.id) => u.last_got_item = None
      ]_vars

\* Two tasks, both dispatched before; the clock has moved on and
\* update_last_got_item_by_id has just stamped one of them, the other
\* keeping its older stamp.
C24_Witness ==
    /\ res.op = "update_last_got_item_by_id"
    /\ res.value = TRUE
    /\ \E t, u \in tasks :
          /\ t.last_got_item = Some(now)
          /\ u.last_got_item # None
          /\ Val(u.last_got_item) < now
          /\ t.last_updated < now

----------------------------------------------------------------------------
\* C25: an update_city call that would give the city the name_normalized of
\* another city, and an update_district call that would give the district
\* the (city_id, name_normalized) of another district (by a new name, a new
\* city, or both), end with ValueError and leave the store as it was.
C25_UpdateConflictRejected ==
    [][ /\ \A city_id \in 1..MaxCities,
              name_raw \in OptionalOf(CityRawNames),
              name_normalized \in OptionalOf(CityNormalizedNames) :
              ( /\ res'.op = "update_city"
                /\ update_city(city_id, name_raw, name_normalized)
                /\ name_normalized # None
                /\ \E c, e \in cities :
                      /\ c.id = city_id
                      /\ e.id # city_id
                      /\ e.name_normalized = Val(name_normalized) ) =>
                  /\ res'.error = "ValueError"
                  /\ UNCHANGED store
        /\ \A district_id \in 1..MaxDistricts,
              city_id \in OptionalOf(1..MaxCities),
              name_raw \in OptionalOf(DistrictRawNames),
              name_normalized \in OptionalOf(DistrictNormalizedNames) :
              ( /\ res'.op = "update_district"
                /\ update_district(district_id, city_id, name_raw,
                                   name_normalized)
                /\ \E d, e \in districts :
                      /\ d.id = district_id
                      /\ e.id # district_id
                      /\ e.city_id = (IF city_id # None THEN Val(city_id)
                                      ELSE d.city_id)
                      /\ e.name_normalized =
                            (IF name_normalized # None
                             THEN Val(name_normalized)
                             ELSE d.name_normalized) ) =>
                  /\ res'.error = "ValueError"
                  /\ UNCHANGED store
      ]_vars

----------------------------------------------------------------------------
\* C26: an item of the task's source and geography that was ingested after
\* the loop's first dispatch is never left behind: once the task's
\* last_got_item has reached the item's first_seen (from then on the time
\* filter rejects the item for good), the item has been returned by a
\* dispatch.
C26_NoEligibleItemLost ==
    \A t \in tasks, i \in items :
        ( /\ t.id = LoopTaskId
          /\ loop.first # None
          /\ i.id >= Val(loop.first)
          /\ PassesSource(t, i)
          /\ NoGeography(t)
          /\ t.last_got_item # None
          /\ i.first_seen <= Val(t.last_got_item) ) => i.id \in loop.delivered

\* C27: an item that a dispatch returned, and after which
\* update_last_got_item_by_id was called, is not returned by a later
\* dispatch, whatever ingestion ran in between; the clock never runs back.
C27_NoItemTwice ==
    [][ ( /\ res'.op = "get_items_to_send_for_task"
          /\ loop.pc = "query"
          /\ loop'.pc = "update" ) =>
            /\ now' >= now
            /\ \A k \in DOMAIN res'.out : res'.out[k] \notin loop.delivered
      ]_vars

\* A dispatch after an earlier round of the loop: it returns an item
\* ingested since, and leaves out an item of the task's source that the
\* earlier round delivered.
C27_Witness ==
    /\ Dispatched
    /\ loop.pc = "update"
    /\ res.task.last_got_item # None
    /\ res.out # <<>>
    /\ \E i \in items : /\ i.id \in loop.delivered
                         /\ PassesSource(res.task, i)
                         /\ ~Returned(i)

----------------------------------------------------------------------------
\* C28: in every state an item whose city_id and district_id are both set
\* names a district row whose city_id is the item's city_id.
C28_ItemDistrictInItemCity ==
    \A i \in items :
        (i.city_id # None /\ i.district_id # None) =>
            \E d \in districts : /\ d.id = Val(i.district_id)
                                  /\ d.city_id = Val(i.city_id)

----------------------------------------------------------------------------
\* C29: in every state no two task rows of one chat_id carry the same url.
C29_UrlUniquePerChat ==
    \A t1, t2 \in tasks :
        (t1.chat_id = t2.chat_id /\ t1.url = t2.url) => t1 = t2

----------------------------------------------------------------------------
\* C30: a dispatch for a task whose requests all carried the non-empty list
\* RequestedDistrictIds returns no item that is on a district row which is
\* neither one of the requested ids nor a district named 'unknown'.
C30_RestrictionKept ==
    Dispatched =>
        \A i \in items :
            Returned(i) =>
                \A d \in districts :
                    (i.district_id = Some(d.id)) =>
                        \/ d.id \in RequestedDistrictIds
                        \/ d.name_normalized = unknown

====
